---------------------------- MODULE Spec2Model ----------------------------
(***************************************************************************)
(* Composio tool handlers of aden_tools (gmail_tools.py, linkedin_tools.py) *)
(* as a state machine: one handler invocation at a time runs through input  *)
(* validation, the OAuth connection gate (_ensure_oauth_connection) and the *)
(* remote action (client.execute_action), while the remote service's        *)
(* connection records may change under it.                                  *)
(*                                                                          *)
(* Representation of Python values:                                         *)
(*   - free-text str arguments (to, subject, body, text, message, ...) are  *)
(*     held as their length: the handlers only test them for emptiness and  *)
(*     length and forward them unchanged;                                   *)
(*   - enumerations, URLs, ids and error texts are TLA+ strings;            *)
(*   - None is the string None where a str is expected and the record       *)
(*     NoneObj where a dict or an object is expected;                       *)
(*   - a dict is a record / function from keys to values, a list is a       *)
(*     sequence;                                                            *)
(*   - a call's outcome is [kind |-> "return", value |-> v] or              *)
(*     [kind |-> "raise", exc |-> str(e)].                                  *)
(***************************************************************************)
EXTENDS Integers, Sequences, FiniteSets, TLC

VARIABLES
    sdk_installed,   \* whether `from composio import ...` succeeds
    credentials,     \* the injected CredentialManager (NoneObj: none injected)
    environ,         \* os.environ's COMPOSIO_API_KEY (None: unset)
    remote,          \* the remote service's connection record per application
    pc,              \* position of the running invocation
    tool,            \* the invoked tool's name
    args,            \* the invocation's arguments, as passed
    locals,          \* the handler's arguments after validation reassigned them
    toolset,         \* _ensure_oauth_connection's local `client`
    check,           \* what _check_oauth_connection returned
    client,          \* the handler's `client`
    error_response,  \* the handler's `error_response`
    calls,           \* calls made by this invocation, in order, each with its outcome
    ret              \* how the invocation ended

vars == <<sdk_installed, credentials, environ, remote, pc, tool, args, locals,
          toolset, check, client, error_response, calls, ret>>

(***************************************************************************)
(* Bounds of the model.                                                    *)
(***************************************************************************)
\* how far below and above each numeric limit the inputs and the remote
\* service's list sizes range
Slack == 1

(***************************************************************************)
(* Python values.                                                          *)
(***************************************************************************)
None == "None"
NoneObj == [py_none |-> TRUE]

Return(v) == [kind |-> "return", value |-> v]
Raise(e) == [kind |-> "raise", exc |-> e]

\* truth value of an Optional[str]
TruthyStr(s) == s # None /\ s # ""
\* truth value of an Optional[dict] / Optional[object]
TruthyObj(o) == o # NoneObj /\ DOMAIN o # {}
\* dict.get(key, default)
Get(d, k, default) == IF k \in DOMAIN d THEN d[k] ELSE default
\* builtins
Max(a, b) == IF a >= b THEN a ELSE b
Min(a, b) == IF a <= b THEN a ELSE b
\* seq[:n] for n >= 0
Take(seq, n) == SubSeq(seq, 1, Min(n, Len(seq)))

GMAIL_APP_NAME == "GMAIL"
LINKEDIN_APP_NAME == "LINKEDIN"
Apps == {GMAIL_APP_NAME, LINKEDIN_APP_NAME}

\* str.lower() on the application names
Lower(s) ==
    CASE s = "GMAIL" -> "gmail"
      [] s = "LINKEDIN" -> "linkedin"
      [] OTHER -> s


(***************************************************************************)
(* The collaborators: what each call may answer.                           *)
(***************************************************************************)
ApiKeys == {None, "", "key-123"}

\* credentials.get("composio"): the stored value, or the manager raises
CredentialOutcomes == {Return(credentials.composio), Raise("credential store unavailable")}
\* os.getenv("COMPOSIO_API_KEY") does not raise
EnvOutcomes == {Return(environ)}
\* ComposioToolSet(api_key=api_key)
ToolSetOutcomes(api_key) == {Return([api_key |-> api_key]), Raise("invalid API key")}
\* client.get_entity(id="default")
EntityOutcomes == {Return([id |-> "default"]), Raise("entity lookup timed out")}

\* a connection record of the remote service; NoneObj: no record
ConnectionRecords ==
    {[id |-> "conn-1", status |-> s] : s \in {"ACTIVE", "INITIATED", "EXPIRED"}}
        \cup {[id |-> "conn-1"]}
\* entity.get_connection(app=app_name): the record; with no record the SDK
\* raises or answers None; any lookup may fail
ConnectionOutcomes(app_name) ==
    (IF remote[app_name] = NoneObj
        THEN {Raise("No connected account found"), Return(NoneObj)}
        ELSE {Return(remote[app_name])})
    \cup {Raise("connection lookup timed out")}
\* entity.initiate_connection(app_name=..., redirect_url=...)
InitiateOutcomes(app_name) ==
    {Return([redirectUrl |-> "https://backend.composio.dev/s/" \o Lower(app_name)]),
     Return([redirectUrl |-> ""]),
     Return([connectedAccountId |-> "conn-2"]),
     Raise("initiation failed")}

(***************************************************************************)
(* The connection gate.                                                    *)
(***************************************************************************)
SdkMissingMsg == "Composio SDK not installed. Run: pip install composio-core"
KeyMissingMsg == "COMPOSIO_API_KEY not set. Get one at https://app.composio.dev/settings"

\* get_composio_client testing `api_key is None` instead of `not api_key`
get_composio_client_empty_key(key_o, toolset_o) ==
    LET lookup == [op |-> IF credentials # NoneObj THEN "credentials.get" ELSE "os.getenv",
                   out |-> key_o]
        construct == [op |-> "ComposioToolSet", out |-> toolset_o]
    IN  IF ~sdk_installed
        THEN [out |-> Return(<<NoneObj, SdkMissingMsg>>), calls |-> <<>>]
        ELSE IF key_o.kind = "raise"
        THEN [out |-> key_o, calls |-> <<lookup>>]
        ELSE IF key_o.value = None
        THEN [out |-> Return(<<NoneObj, KeyMissingMsg>>), calls |-> <<lookup>>]
        ELSE IF toolset_o.kind = "raise"
        THEN [out |-> toolset_o, calls |-> <<lookup, construct>>]
        ELSE [out |-> Return(<<toolset_o.value, None>>), calls |-> <<lookup, construct>>]

\* _get_composio_client: (client, error), or the exception a collaborator
\* raised, and the collaborator calls it made
get_composio_client(key_o, toolset_o) ==
    LET lookup == [op |-> IF credentials # NoneObj THEN "credentials.get" ELSE "os.getenv",
                   out |-> key_o]
        construct == [op |-> "ComposioToolSet", out |-> toolset_o]
    IN  IF ~sdk_installed
        THEN [out |-> Return(<<NoneObj, SdkMissingMsg>>), calls |-> <<>>]
        ELSE IF key_o.kind = "raise"
        THEN [out |-> key_o, calls |-> <<lookup>>]
        ELSE IF ~TruthyStr(key_o.value)
        THEN [out |-> Return(<<NoneObj, KeyMissingMsg>>), calls |-> <<lookup>>]
        ELSE IF toolset_o.kind = "raise"
        THEN [out |-> toolset_o, calls |-> <<lookup, construct>>]
        ELSE [out |-> Return(<<toolset_o.value, None>>), calls |-> <<lookup, construct>>]

\* a variant without the `if connection:` test: a None answer has no status
connection_active_untested(conn_o) ==
    /\ conn_o.kind = "return"
    /\ LET status == Get(conn_o.value, "status", None)
       IN  status = "ACTIVE" \/ status = None

\* a variant that accepts only a record whose status is "ACTIVE"
connection_active_strict(conn_o) ==
    /\ conn_o.kind = "return"
    /\ TruthyObj(conn_o.value)
    /\ Get(conn_o.value, "status", None) = "ACTIVE"

\* _check_oauth_connection, the inner try around get_connection: whether the
\* lookup found an active connection
connection_active(conn_o) ==
    /\ conn_o.kind = "return"
    /\ TruthyObj(conn_o.value)
    /\ LET status == Get(conn_o.value, "status", None)
       IN  status = "ACTIVE" \/ status = None

DashboardUrl(app_name) == "https://app.composio.dev/app/" \o Lower(app_name)

\* initiate_oauth_url without the dashboard fallback for a missing URL
initiate_oauth_url_no_fallback(app_name, init_o) ==
    IF init_o.kind = "raise" THEN DashboardUrl(app_name)
    ELSE Get(init_o.value, "redirectUrl", None)

\* _check_oauth_connection, the try around initiate_connection: the URL handed out
initiate_oauth_url(app_name, init_o) ==
    IF init_o.kind = "raise" THEN DashboardUrl(app_name)
    ELSE LET oauth_url == Get(init_o.value, "redirectUrl", None)
         IN  IF TruthyStr(oauth_url) THEN oauth_url ELSE DashboardUrl(app_name)

\* _check_oauth_connection's three returns
CheckConnected == [is_connected |-> TRUE, oauth_url |-> None, check_error |-> None]
CheckNotConnected(oauth_url) ==
    [is_connected |-> FALSE, oauth_url |-> oauth_url, check_error |-> None]
CheckFailed(e) ==
    [is_connected |-> FALSE, oauth_url |-> None,
     check_error |-> "Failed to check OAuth connection: " \o e]

\* ensure_oauth_connection testing is_connected before check_error
ensure_oauth_connection_error_unchecked(cl, chk, app_name) ==
    IF ~chk.is_connected THEN
        <<NoneObj,
          [error |-> app_name \o " OAuth connection required. Please authorize access.",
           oauth_required |-> TRUE,
           oauth_url |-> chk.oauth_url,
           message |-> "Please visit the following URL to connect your " \o app_name
                         \o " account: " \o chk.oauth_url]>>
    ELSE IF TruthyStr(chk.check_error) THEN <<NoneObj, [error |-> chk.check_error]>>
    ELSE <<cl, NoneObj>>

\* ensure_oauth_connection without its `if not is_connected` branch
ensure_oauth_connection_unguarded(cl, chk, app_name) ==
    IF TruthyStr(chk.check_error) THEN <<NoneObj, [error |-> chk.check_error]>>
    ELSE <<cl, NoneObj>>

\* _ensure_oauth_connection after the check returned: (client, error_response)
ensure_oauth_connection(cl, chk, app_name) ==
    IF TruthyStr(chk.check_error) THEN <<NoneObj, [error |-> chk.check_error]>>
    ELSE IF ~chk.is_connected THEN
        <<NoneObj,
          [error |-> app_name \o " OAuth connection required. Please authorize access.",
           oauth_required |-> TRUE,
           oauth_url |-> chk.oauth_url,
           message |-> "Please visit the following URL to connect your " \o app_name
                         \o " account: " \o chk.oauth_url]>>
    ELSE <<cl, NoneObj>>


(***************************************************************************)
(* Inputs of the handlers and answers of client.execute_action.            *)
(***************************************************************************)
\* lengths of a required free-text argument: empty and not
StrLens == {0, 1}
\* lengths of an optional free-text argument (cc, bcc)
OptLens == {0, 1}
\* lengths around a length limit
LensAround(limit) == StrLens \cup ((limit - Slack)..(limit + Slack))
\* integer count arguments around the range [1, cap], and the default 10
CountsAround(cap) == ((0 - Slack)..1) \cup {10} \cup (cap..(cap + Slack))
\* sizes of the list the remote service answers: below, at and above what
\* was asked for
ListSizes(cap) == {0, 1, 2, 10 + Slack, cap, cap + Slack}

\* the remote service's answers that are the same for every action
CommonExecOutcomes ==
    {Raise("Connection reset by peer"),
     Return(NoneObj),
     Return([successful |-> FALSE, error |-> "Remote service error"]),
     Return([successful |-> FALSE]),
     Return([successful |-> TRUE])}

\* the text of the AttributeError of `None.get(...)`
NoneGetError == "'NoneType' object has no attribute 'get'"

(***************************************************************************)
(* gmail_send_email                                                        *)
(***************************************************************************)
gmail_send_email_inputs ==
    [to : StrLens, subject : StrLens, body : StrLens, cc : OptLens, bcc : OptLens]

gmail_send_email_validate(a) ==
    IF a.to = 0 THEN "Recipient email address is required"
    ELSE IF a.subject = 0 THEN "Email subject is required"
    ELSE IF a.body = 0 THEN "Email body is required"
    ELSE None

\* the optional keys of the send / draft params
CcBcc(a) ==
    [k \in (IF a.cc # 0 THEN {"cc"} ELSE {}) \cup (IF a.bcc # 0 THEN {"bcc"} ELSE {})
        |-> IF k = "cc" THEN a.cc ELSE a.bcc]

gmail_send_email_params(a) ==
    [to |-> a.to, subject |-> a.subject, body |-> a.body] @@ CcBcc(a)

gmail_send_email_outcomes(a) ==
    CommonExecOutcomes \cup
    {Return([successful |-> TRUE, data |-> [id |-> "abc123"]]),
     Return([successful |-> TRUE, data |-> [id |-> "abc123", threadId |-> "thr-9"]])}

\* a variant that takes the presence of the successful key for success
gmail_send_email_result_key_present(a, result) ==
    IF "successful" \in DOMAIN result
    THEN [success |-> TRUE,
          message_id |-> Get(Get(result, "data", <<>>), "id", None),
          thread_id |-> Get(Get(result, "data", <<>>), "threadId", None),
          message |-> "Email sent successfully"]
    ELSE [error |-> Get(result, "error", "Failed to send email")]

gmail_send_email_result(a, result) ==
    IF Get(result, "successful", FALSE)
    THEN [success |-> TRUE,
          message_id |-> Get(Get(result, "data", <<>>), "id", None),
          thread_id |-> Get(Get(result, "data", <<>>), "threadId", None),
          message |-> "Email sent successfully"]
    ELSE [error |-> Get(result, "error", "Failed to send email")]

(***************************************************************************)
(* gmail_read_emails                                                       *)
(***************************************************************************)
GmailMaxResults == 100

\* the messages the remote service answers
Messages(n) == [i \in 1..n |-> [id |-> i, subject |-> "Hello", isUnread |-> TRUE]]

gmail_read_emails_inputs ==
    [max_results : CountsAround(GmailMaxResults), label : {"INBOX"},
     unread_only : BOOLEAN]

gmail_read_emails_validate(a) == None

gmail_read_emails_locals(a) ==
    [a EXCEPT !.max_results = Max(1, Min(GmailMaxResults, a.max_results))]

gmail_read_emails_params(a) ==
    [max_results |-> a.max_results, label_ids |-> <<a.label>>]
        @@ (IF a.unread_only THEN [query |-> "is:unread"] ELSE <<>>)

gmail_fetch_outcomes ==
    CommonExecOutcomes \cup
    {Return([successful |-> TRUE, data |-> [messages |-> Messages(n)]]) :
        n \in ListSizes(GmailMaxResults)}

gmail_read_emails_outcomes(a) == gmail_fetch_outcomes

gmail_read_emails_result(a, result) ==
    IF Get(result, "successful", FALSE)
    THEN LET messages == Get(Get(result, "data", <<>>), "messages", <<>>)
             kept == Take(messages, a.max_results)
         IN  [success |-> TRUE,
              emails |-> [i \in DOMAIN kept |->
                  [id |-> Get(kept[i], "id", None),
                   thread_id |-> Get(kept[i], "threadId", None),
                   from |-> Get(kept[i], "from", None),
                   to |-> Get(kept[i], "to", None),
                   subject |-> Get(kept[i], "subject", None),
                   snippet |-> Get(kept[i], "snippet", None),
                   date |-> Get(kept[i], "date", None),
                   is_unread |-> Get(kept[i], "isUnread", FALSE)]],
              total |-> Len(messages)]
    ELSE [error |-> Get(result, "error", "Failed to fetch emails")]

(***************************************************************************)
(* gmail_search_emails                                                     *)
(***************************************************************************)
gmail_search_emails_inputs ==
    [query : StrLens, max_results : CountsAround(GmailMaxResults)]

gmail_search_emails_validate(a) ==
    IF a.query = 0 THEN "Search query is required" ELSE None

\* gmail_search_emails_locals with only the upper clamp
gmail_search_emails_locals_no_floor(a) ==
    [a EXCEPT !.max_results = Min(GmailMaxResults, a.max_results)]

gmail_search_emails_locals(a) ==
    [a EXCEPT !.max_results = Max(1, Min(GmailMaxResults, a.max_results))]

gmail_search_emails_params(a) ==
    [query |-> a.query, max_results |-> a.max_results]

gmail_search_emails_outcomes(a) == gmail_fetch_outcomes

gmail_search_emails_result(a, result) ==
    IF Get(result, "successful", FALSE)
    THEN LET messages == Get(Get(result, "data", <<>>), "messages", <<>>)
             kept == Take(messages, a.max_results)
         IN  [success |-> TRUE,
              results |-> [i \in DOMAIN kept |->
                  [id |-> Get(kept[i], "id", None),
                   thread_id |-> Get(kept[i], "threadId", None),
                   from |-> Get(kept[i], "from", None),
                   to |-> Get(kept[i], "to", None),
                   subject |-> Get(kept[i], "subject", None),
                   snippet |-> Get(kept[i], "snippet", None),
                   date |-> Get(kept[i], "date", None)]],
              total |-> Len(messages),
              query |-> a.query]
    ELSE [error |-> Get(result, "error", "Failed to search emails")]

(***************************************************************************)
(* gmail_create_draft                                                      *)
(***************************************************************************)
gmail_create_draft_inputs ==
    [to : StrLens, subject : StrLens, body : StrLens, cc : OptLens, bcc : OptLens]

gmail_create_draft_validate(a) ==
    IF a.to = 0 THEN "Recipient email address is required"
    ELSE IF a.subject = 0 THEN "Email subject is required"
    ELSE None

\* `body or ""` is body itself: the empty string is the only falsy str
gmail_create_draft_params(a) ==
    [to |-> a.to, subject |-> a.subject, body |-> IF a.body # 0 THEN a.body ELSE 0]
        @@ CcBcc(a)

gmail_create_draft_outcomes(a) ==
    CommonExecOutcomes \cup {Return([successful |-> TRUE, data |-> [id |-> "draft-7"]])}

gmail_create_draft_result(a, result) ==
    IF Get(result, "successful", FALSE)
    THEN [success |-> TRUE,
          draft_id |-> Get(Get(result, "data", <<>>), "id", None),
          message |-> "Draft created successfully"]
    ELSE [error |-> Get(result, "error", "Failed to create draft")]


(***************************************************************************)
(* linkedin_create_post                                                    *)
(***************************************************************************)
PostMaxLen == 3000
Visibilities == {"PUBLIC", "CONNECTIONS", "LOGGED_IN"}

linkedin_create_post_inputs ==
    [text : LensAround(PostMaxLen), visibility : Visibilities \cup {"BOGUS"}]

\* linkedin_create_post_validate with `len(text) >= 3000`
linkedin_create_post_validate_off_by_one(a) ==
    IF a.text = 0 \/ a.text >= PostMaxLen
    THEN "Post text must be 1-3000 characters"
    ELSE None

linkedin_create_post_validate(a) ==
    IF a.text = 0 \/ a.text > PostMaxLen
    THEN "Post text must be 1-3000 characters"
    ELSE None

\* linkedin_create_post_locals leaving the visibility as given
linkedin_create_post_locals_uncoerced(a) == a

linkedin_create_post_locals(a) ==
    IF a.visibility \notin Visibilities THEN [a EXCEPT !.visibility = "PUBLIC"] ELSE a

linkedin_create_post_params(a) == [text |-> a.text, visibility |-> a.visibility]

linkedin_create_post_outcomes(a) ==
    CommonExecOutcomes \cup {Return([successful |-> TRUE, data |-> [id |-> "post-1"]])}

linkedin_create_post_result(a, result) ==
    IF Get(result, "successful", FALSE)
    THEN [success |-> TRUE,
          post_id |-> Get(Get(result, "data", <<>>), "id", None),
          message |-> "Post created successfully"]
    ELSE [error |-> Get(result, "error", "Failed to create post")]

(***************************************************************************)
(* linkedin_get_profile                                                    *)
(***************************************************************************)
linkedin_get_profile_inputs == [profile_id : {"me", "urn:li:person:42"}]

\* linkedin_get_profile answering with the profile_id it was asked for
linkedin_get_profile_by_id(a) ==
    [success |-> TRUE,
     profile |->
        [id |-> a.profile_id,
         first_name |-> "Richard",
         last_name |-> "Tang",
         full_name |-> "Richard Tang",
         headline |-> "CEO & Founder at Aden | Building AI-powered solutions",
         summary |-> "Experienced tech entrepreneur focused on AI and automation. Previously founded multiple startups in the B2B space.",
         profile_url |-> "https://www.linkedin.com/in/richardtang",
         location |-> "San Francisco, CA",
         current_company |-> "Aden"]]

linkedin_get_profile(a) ==
    [success |-> TRUE,
     profile |->
        [id |-> "mock-profile-123",
         first_name |-> "Richard",
         last_name |-> "Tang",
         full_name |-> "Richard Tang",
         headline |-> "CEO & Founder at Aden | Building AI-powered solutions",
         summary |-> "Experienced tech entrepreneur focused on AI and automation. Previously founded multiple startups in the B2B space.",
         profile_url |-> "https://www.linkedin.com/in/richardtang",
         location |-> "San Francisco, CA",
         current_company |-> "Aden"]]

(***************************************************************************)
(* linkedin_get_company                                                    *)
(***************************************************************************)
Roles == {"ADMINISTRATOR", "DIRECT_SPONSORED_CONTENT_POSTER"}

linkedin_get_company_inputs == [role : Roles \cup {"BOGUS"}]

linkedin_get_company_validate(a) == None

linkedin_get_company_locals(a) ==
    IF a.role \notin Roles THEN [a EXCEPT !.role = "ADMINISTRATOR"] ELSE a

linkedin_get_company_params(a) == [role |-> a.role, state |-> "APPROVED", count |-> 100]

\* the shapes of `data` the handler tells apart: a dict with "elements",
\* another dict, an empty dict; a list, held as [py_list |-> its items]
CompanyDictData == {[elements |-> <<[id |-> "org-1"]>>], [id |-> "org-1"], <<>>}
CompanyListData == {[py_list |-> <<[id |-> "org-1"], [id |-> "org-2"]>>]}
\* isinstance(data, list)
IsList(data) == "py_list" \in DOMAIN data
\* remote error texts that contain "403" or "Forbidden", among those answered
PermissionErrors == {"403 Client Error", "Forbidden"}

linkedin_get_company_outcomes(a) ==
    CommonExecOutcomes
    \cup {Return([successful |-> TRUE, data |-> d]) :
            d \in CompanyDictData \cup CompanyListData}
    \cup {Return([successful |-> FALSE, error |-> e]) : e \in PermissionErrors}

\* `"403" in str(error_msg) or "Forbidden" in str(error_msg)`
IsPermissionError(error_msg) == error_msg \in PermissionErrors

linkedin_get_company_result(a, result) ==
    IF Get(result, "successful", FALSE)
    THEN LET data == Get(result, "data", <<>>)
             orgs == IF ~IsList(data) /\ "elements" \in DOMAIN data THEN data.elements
                     ELSE IF IsList(data) THEN data.py_list
                     ELSE IF DOMAIN data # {} THEN <<data>> ELSE <<>>
         IN  [success |-> TRUE, organizations |-> orgs, count |-> Len(orgs)]
    ELSE LET error_msg == Get(result, "error", "Failed to get company info")
         IN  IF IsPermissionError(error_msg)
             THEN [error |-> "Permission denied. You may not have admin access to any LinkedIn company pages.",
                   suggestion |-> "Ensure you have ADMINISTRATOR or DIRECT_SPONSORED_CONTENT_POSTER role on a company page."]
             ELSE [error |-> error_msg]

(***************************************************************************)
(* linkedin_search_people                                                  *)
(***************************************************************************)
PeopleMaxLimit == 50

People(n) == [i \in 1..n |-> [name |-> i, headline |-> "Engineer"]]

linkedin_search_people_inputs ==
    [keywords : StrLens, limit : CountsAround(PeopleMaxLimit)]

linkedin_search_people_validate(a) ==
    IF a.keywords = 0 THEN "Keywords are required" ELSE None

linkedin_search_people_locals(a) ==
    [a EXCEPT !.limit = Max(1, Min(PeopleMaxLimit, a.limit))]

linkedin_search_people_params(a) == [keywords |-> a.keywords, limit |-> a.limit]

linkedin_search_people_outcomes(a) ==
    CommonExecOutcomes \cup
    {Return([successful |-> TRUE, data |-> [elements |-> People(n)]]) :
        n \in ListSizes(PeopleMaxLimit)}

linkedin_search_people_result(a, result) ==
    IF Get(result, "successful", FALSE)
    THEN LET people == Get(Get(result, "data", <<>>), "elements", <<>>)
             kept == Take(people, a.limit)
         IN  [success |-> TRUE,
              results |-> [i \in DOMAIN kept |->
                  [name |-> Get(kept[i], "name", None),
                   headline |-> Get(kept[i], "headline", None),
                   profile_url |-> Get(kept[i], "profileUrl", None)]],
              total |-> Len(people)]
    ELSE [error |-> Get(result, "error", "Failed to search people")]

(***************************************************************************)
(* linkedin_send_message                                                   *)
(***************************************************************************)
MessageMaxLen == 8000

linkedin_send_message_inputs ==
    [recipient_id : StrLens, message : LensAround(MessageMaxLen)]

\* linkedin_send_message_validate without the recipient_id test
linkedin_send_message_validate_no_recipient(a) ==
    IF a.message = 0 \/ a.message > MessageMaxLen
    THEN "Message must be 1-8000 characters"
    ELSE None

linkedin_send_message_validate(a) ==
    IF a.recipient_id = 0 THEN "Recipient ID is required"
    ELSE IF a.message = 0 \/ a.message > MessageMaxLen
    THEN "Message must be 1-8000 characters"
    ELSE None

linkedin_send_message_params(a) == [recipient_id |-> a.recipient_id, message |-> a.message]

linkedin_send_message_outcomes(a) ==
    CommonExecOutcomes \cup {Return([successful |-> TRUE, data |-> [id |-> "msg-5"]])}

linkedin_send_message_result(a, result) ==
    IF Get(result, "successful", FALSE)
    THEN [success |-> TRUE,
          message_id |-> Get(Get(result, "data", <<>>), "id", None),
          message |-> "Message sent successfully"]
    ELSE [error |-> Get(result, "error", "Failed to send message")]


(***************************************************************************)
(* The registered tools.                                                   *)
(***************************************************************************)
Tools ==
    {"gmail_send_email", "gmail_read_emails", "gmail_search_emails",
     "gmail_create_draft", "linkedin_create_post", "linkedin_get_profile",
     "linkedin_get_company", "linkedin_search_people", "linkedin_send_message"}

AppOf(t) ==
    IF t \in {"gmail_send_email", "gmail_read_emails", "gmail_search_emails",
              "gmail_create_draft"}
    THEN GMAIL_APP_NAME ELSE LINKEDIN_APP_NAME

InputsOf(t) ==
    CASE t = "gmail_send_email" -> gmail_send_email_inputs
      [] t = "gmail_read_emails" -> gmail_read_emails_inputs
      [] t = "gmail_search_emails" -> gmail_search_emails_inputs
      [] t = "gmail_create_draft" -> gmail_create_draft_inputs
      [] t = "linkedin_create_post" -> linkedin_create_post_inputs
      [] t = "linkedin_get_profile" -> linkedin_get_profile_inputs
      [] t = "linkedin_get_company" -> linkedin_get_company_inputs
      [] t = "linkedin_search_people" -> linkedin_search_people_inputs
      [] t = "linkedin_send_message" -> linkedin_send_message_inputs

\* the handler's validation: the error text, or None when the input passes
Validate(t, a) ==
    CASE t = "gmail_send_email" -> gmail_send_email_validate(a)
      [] t = "gmail_read_emails" -> gmail_read_emails_validate(a)
      [] t = "gmail_search_emails" -> gmail_search_emails_validate(a)
      [] t = "gmail_create_draft" -> gmail_create_draft_validate(a)
      [] t = "linkedin_create_post" -> linkedin_create_post_validate(a)
      [] t = "linkedin_get_company" -> linkedin_get_company_validate(a)
      [] t = "linkedin_search_people" -> linkedin_search_people_validate(a)
      [] t = "linkedin_send_message" -> linkedin_send_message_validate(a)

\* the handler's arguments after it clamped or coerced them
LocalsOf(t, a) ==
    CASE t = "gmail_read_emails" -> gmail_read_emails_locals(a)
      [] t = "gmail_search_emails" -> gmail_search_emails_locals(a)
      [] t = "linkedin_create_post" -> linkedin_create_post_locals(a)
      [] t = "linkedin_get_company" -> linkedin_get_company_locals(a)
      [] t = "linkedin_search_people" -> linkedin_search_people_locals(a)
      [] OTHER -> a

\* the Action each handler executes
ActionOf(t) ==
    CASE t = "gmail_send_email" -> "GMAIL_SEND_EMAIL"
      [] t = "gmail_read_emails" -> "GMAIL_FETCH_EMAILS"
      [] t = "gmail_search_emails" -> "GMAIL_FETCH_EMAILS"
      [] t = "gmail_create_draft" -> "GMAIL_CREATE_EMAIL_DRAFT"
      [] t = "linkedin_create_post" -> "LINKEDIN_CREATE_LINKED_IN_POST"
      [] t = "linkedin_get_company" -> "LINKEDIN_GET_COMPANY_INFO"
      [] t = "linkedin_search_people" -> "LINKEDIN_SEARCH_PEOPLE"
      [] t = "linkedin_send_message" -> "LINKEDIN_SEND_MESSAGE"

ParamsOf(t, l) ==
    CASE t = "gmail_send_email" -> gmail_send_email_params(l)
      [] t = "gmail_read_emails" -> gmail_read_emails_params(l)
      [] t = "gmail_search_emails" -> gmail_search_emails_params(l)
      [] t = "gmail_create_draft" -> gmail_create_draft_params(l)
      [] t = "linkedin_create_post" -> linkedin_create_post_params(l)
      [] t = "linkedin_get_company" -> linkedin_get_company_params(l)
      [] t = "linkedin_search_people" -> linkedin_search_people_params(l)
      [] t = "linkedin_send_message" -> linkedin_send_message_params(l)

\* what client.execute_action may answer
OutcomesOf(t, l) ==
    CASE t = "gmail_send_email" -> gmail_send_email_outcomes(l)
      [] t = "gmail_read_emails" -> gmail_read_emails_outcomes(l)
      [] t = "gmail_search_emails" -> gmail_search_emails_outcomes(l)
      [] t = "gmail_create_draft" -> gmail_create_draft_outcomes(l)
      [] t = "linkedin_create_post" -> linkedin_create_post_outcomes(l)
      [] t = "linkedin_get_company" -> linkedin_get_company_outcomes(l)
      [] t = "linkedin_search_people" -> linkedin_search_people_outcomes(l)
      [] t = "linkedin_send_message" -> linkedin_send_message_outcomes(l)

\* the handler's reading of the result dict
ResultOf(t, l, result) ==
    CASE t = "gmail_send_email" -> gmail_send_email_result(l, result)
      [] t = "gmail_read_emails" -> gmail_read_emails_result(l, result)
      [] t = "gmail_search_emails" -> gmail_search_emails_result(l, result)
      [] t = "gmail_create_draft" -> gmail_create_draft_result(l, result)
      [] t = "linkedin_create_post" -> linkedin_create_post_result(l, result)
      [] t = "linkedin_get_company" -> linkedin_get_company_result(l, result)
      [] t = "linkedin_search_people" -> linkedin_search_people_result(l, result)
      [] t = "linkedin_send_message" -> linkedin_send_message_result(l, result)

\* the text each handler's `except Exception` puts before " failed: "
FailPrefix(t) ==
    CASE t = "gmail_send_email" -> "Gmail send"
      [] t = "gmail_read_emails" -> "Gmail read"
      [] t = "gmail_search_emails" -> "Gmail search"
      [] t = "gmail_create_draft" -> "Gmail draft creation"
      [] t = "linkedin_create_post" -> "LinkedIn post"
      [] t = "linkedin_get_company" -> "LinkedIn company fetch"
      [] t = "linkedin_search_people" -> "LinkedIn search"
      [] t = "linkedin_send_message" -> "LinkedIn message"

\* a variant whose except clause returns the exception text without the tool's
\* prefix
handler_try_unprefixed(t, l, exec_o) ==
    IF exec_o.kind = "raise"
    THEN [error |-> exec_o.exc]
    ELSE IF exec_o.value = NoneObj
    THEN [error |-> FailPrefix(t) \o " failed: " \o NoneGetError]
    ELSE ResultOf(t, l, exec_o.value)

\* the handler's try block around execute_action, given what the call did
handler_try(t, l, exec_o) ==
    IF exec_o.kind = "raise"
    THEN [error |-> FailPrefix(t) \o " failed: " \o exec_o.exc]
    ELSE IF exec_o.value = NoneObj
    THEN [error |-> FailPrefix(t) \o " failed: " \o NoneGetError]
    ELSE ResultOf(t, l, exec_o.value)


(***************************************************************************)
(* The state machine.                                                      *)
(***************************************************************************)
NoCheck == [is_connected |-> FALSE, oauth_url |-> None, check_error |-> None,
            pending |-> TRUE]

\* the invocation's own state before a handler is entered
Fresh ==
    /\ pc = "idle"
    /\ tool = None
    /\ args = NoneObj
    /\ locals = NoneObj
    /\ toolset = NoneObj
    /\ check = NoCheck
    /\ client = NoneObj
    /\ error_response = NoneObj
    /\ calls = <<>>
    /\ ret = NoneObj

\* the deployments <<sdk_installed, credentials, environ>>: with the SDK
\* installed, no credential source and any environment, or any credential
\* source and the variable unset or set; without the SDK, one with an injected
\* key and one with the key in the environment
Deployments ==
    {<<TRUE, NoneObj, e>> : e \in ApiKeys}
        \cup {<<TRUE, [composio |-> k], e>> : k \in ApiKeys, e \in {None, "key-123"}}
        \cup {<<FALSE, [composio |-> "key-123"], None>>, <<FALSE, NoneObj, "key-123">>}

Init ==
    /\ \E d \in Deployments :
          /\ sdk_installed = d[1]
          /\ credentials = d[2]
          /\ environ = d[3]
    /\ remote \in [Apps -> {NoneObj} \cup ConnectionRecords]
    /\ Fresh

config == <<sdk_installed, credentials, environ>>
gate_locals == <<toolset, check, client, error_response>>

\* the hosting runtime calls a tool: the handler validates its arguments, and
\* either returns at once or enters _ensure_oauth_connection
Invoke(t, a) ==
    /\ pc = "idle"
    /\ tool' = t
    /\ args' = a
    /\ IF t = "linkedin_get_profile"
       THEN /\ locals' = a
            /\ ret' = Return(linkedin_get_profile(a))
            /\ pc' = "done"
            /\ calls' = <<>>
       ELSE IF Validate(t, a) # None
       THEN /\ locals' = a
            /\ ret' = Return([error |-> Validate(t, a)])
            /\ pc' = "done"
            /\ calls' = <<>>
       ELSE /\ locals' = LocalsOf(t, a)
            /\ ret' = ret
            /\ pc' = "get_client"
            /\ calls' = <<[op |-> "_ensure_oauth_connection", app_name |-> AppOf(t)]>>
    /\ UNCHANGED <<config, remote, gate_locals>>

\* _ensure_oauth_connection calls _get_composio_client; an exception leaves
\* the gate and the handler, an error is returned as {"error": error}
GetComposioClient ==
    /\ pc = "get_client"
    /\ \E key_o \in (IF credentials # NoneObj THEN CredentialOutcomes ELSE EnvOutcomes) :
       \E toolset_o \in ToolSetOutcomes(IF key_o.kind = "return" THEN key_o.value ELSE None) :
          LET r == get_composio_client(key_o, toolset_o)
          IN  /\ calls' = calls \o r.calls
              /\ IF r.out.kind = "raise"
                 THEN /\ ret' = r.out
                      /\ pc' = "done"
                      /\ UNCHANGED <<toolset, error_response>>
                 ELSE IF TruthyStr(r.out.value[2])
                 THEN /\ error_response' = [error |-> r.out.value[2]]
                      /\ ret' = Return(error_response')
                      /\ pc' = "done"
                      /\ UNCHANGED toolset
                 ELSE /\ toolset' = r.out.value[1]
                      /\ pc' = "get_entity"
                      /\ UNCHANGED <<ret, error_response>>
    /\ UNCHANGED <<config, remote, tool, args, locals, check, client>>

\* _check_oauth_connection returned chk: _ensure_oauth_connection turns it into
\* (client, error_response) and the handler returns error_response if it has one
GateReturns(chk) ==
    LET r == ensure_oauth_connection(toolset, chk, AppOf(tool))
    IN  /\ check' = chk
        /\ client' = r[1]
        /\ error_response' = r[2]
        /\ IF TruthyObj(r[2])
           THEN pc' = "done" /\ ret' = Return(r[2])
           ELSE pc' = "execute" /\ ret' = ret

\* client.get_entity(id=entity_id); an exception reaches the outer except
GetEntity ==
    /\ pc = "get_entity"
    /\ \E o \in EntityOutcomes :
          /\ calls' = Append(calls, [op |-> "get_entity", out |-> o])
          /\ IF o.kind = "raise"
             THEN GateReturns(CheckFailed(o.exc))
             ELSE pc' = "get_connection" /\ UNCHANGED <<check, client, error_response, ret>>
    /\ UNCHANGED <<config, remote, tool, args, locals, toolset>>

\* entity.get_connection(app=app_name) inside the inner try
GetConnection ==
    /\ pc = "get_connection"
    /\ \E o \in ConnectionOutcomes(AppOf(tool)) :
          /\ calls' = Append(calls, [op |-> "get_connection", out |-> o])
          /\ IF connection_active(o)
             THEN GateReturns(CheckConnected)
             ELSE pc' = "initiate" /\ UNCHANGED <<check, client, error_response, ret>>
    /\ UNCHANGED <<config, remote, tool, args, locals, toolset>>

\* entity.initiate_connection(...) inside its own try
InitiateConnection ==
    /\ pc = "initiate"
    /\ \E o \in InitiateOutcomes(AppOf(tool)) :
          /\ calls' = Append(calls, [op |-> "initiate_connection", out |-> o])
          /\ GateReturns(CheckNotConnected(initiate_oauth_url(AppOf(tool), o)))
    /\ UNCHANGED <<config, remote, tool, args, locals, toolset>>

\* a variant that calls execute_action again when the call raised
ExecuteAction_retrying ==
    /\ pc = "execute"
    /\ IF client = NoneObj
       THEN /\ ret' = Return([error |-> FailPrefix(tool) \o " failed: "
                                \o "'NoneType' object has no attribute 'execute_action'"])
            /\ calls' = calls
            /\ pc' = "done"
       ELSE \E o \in OutcomesOf(tool, locals) :
               /\ calls' = Append(calls, [op |-> "execute_action",
                                          action |-> ActionOf(tool),
                                          params |-> ParamsOf(tool, locals),
                                          out |-> o])
               /\ IF o.kind = "raise"
                  THEN pc' = "execute" /\ ret' = ret
                  ELSE pc' = "done" /\ ret' = Return(handler_try(tool, locals, o))
    /\ UNCHANGED <<config, remote, tool, args, locals, gate_locals>>

\* the handler's try block: client.execute_action(action=..., params=...) and
\* the reading of its result
ExecuteAction ==
    /\ pc = "execute"
    /\ IF client = NoneObj
       THEN /\ ret' = Return([error |-> FailPrefix(tool) \o " failed: "
                                \o "'NoneType' object has no attribute 'execute_action'"])
            /\ calls' = calls
       ELSE \E o \in OutcomesOf(tool, locals) :
               /\ calls' = Append(calls, [op |-> "execute_action",
                                          action |-> ActionOf(tool),
                                          params |-> ParamsOf(tool, locals),
                                          out |-> o])
               /\ ret' = Return(handler_try(tool, locals, o))
    /\ pc' = "done"
    /\ UNCHANGED <<config, remote, tool, args, locals, gate_locals>>

\* the invocation is over; the handler keeps nothing for the next one
Finish ==
    /\ pc = "done"
    /\ pc' = "idle"
    /\ tool' = None
    /\ args' = NoneObj
    /\ locals' = NoneObj
    /\ toolset' = NoneObj
    /\ check' = NoCheck
    /\ client' = NoneObj
    /\ error_response' = NoneObj
    /\ calls' = <<>>
    /\ ret' = NoneObj
    /\ UNCHANGED <<config, remote>>

\* the remote service drops an application's connection (the user revokes it)
RemoteRevoke(app) ==
    /\ remote[app] # NoneObj
    /\ remote' = [remote EXCEPT ![app] = NoneObj]
    /\ UNCHANGED <<config, pc, tool, args, locals, gate_locals, calls, ret>>

\* the remote service records or updates an application's connection
RemoteUpdate(app, rec) ==
    /\ remote[app] # rec
    /\ remote' = [remote EXCEPT ![app] = rec]
    /\ UNCHANGED <<config, pc, tool, args, locals, gate_locals, calls, ret>>

Next ==
    \/ \E t \in Tools : \E a \in InputsOf(t) : Invoke(t, a)
    \/ GetComposioClient
    \/ GetEntity
    \/ GetConnection
    \/ InitiateConnection
    \/ ExecuteAction
    \/ Finish
    \/ \E app \in Apps : RemoteRevoke(app)
    \/ \E app \in Apps : \E rec \in ConnectionRecords : RemoteUpdate(app, rec)

Spec == Init /\ [][Next]_vars


(***************************************************************************)
(* Vocabulary of the properties.                                           *)
(***************************************************************************)
RemoteOps == {"get_entity", "get_connection", "initiate_connection", "execute_action"}
LookupOps == {"credentials.get", "os.getenv"}
GatedTools == Tools \ {"linkedin_get_profile"}

\* the positions of the calls of an operation in this invocation's log
CallsOf(op) == {i \in DOMAIN calls : calls[i].op = op}
HasCall(op) == CallsOf(op) # {}
\* the one call of an operation (when there is one)
TheCall(op) == calls[CHOOSE i \in CallsOf(op) : TRUE]

Done == pc = "done"
Returned == Done /\ ret.kind = "return"
Envelope == ret.value

\* what the gate reported to the handler, once it has
GateConnected ==
    /\ "pending" \notin DOMAIN check
    /\ check.is_connected
    /\ client # NoneObj
    /\ error_response = NoneObj
GateNotConnected ==
    /\ "pending" \notin DOMAIN check
    /\ ~check.is_connected
    /\ check.check_error = None
GateCheckFailed ==
    /\ "pending" \notin DOMAIN check
    /\ check.check_error # None

(***************************************************************************)
(* C1: execute_action is called only in an invocation whose gate returned  *)
(* "connected" (a client and no error envelope), and after the connection  *)
(* lookup of that invocation; an invocation whose gate returned an error   *)
(* envelope (missing credential, check failed, not connected) never calls  *)
(* it.                                                                     *)
(***************************************************************************)
C1_ExecuteOnlyWhenConnected ==
    /\ HasCall("execute_action") =>
          /\ GateConnected
          /\ \E i \in CallsOf("get_connection") : \E j \in CallsOf("execute_action") :
                /\ i < j
                /\ connection_active(calls[i].out)
    /\ error_response # NoneObj => ~HasCall("execute_action")

C1_Witness ==
    /\ Done
    /\ HasCall("execute_action")
    /\ Envelope = [success |-> TRUE, post_id |-> "post-1",
                   message |-> "Post created successfully"]

(***************************************************************************)
(* C2: every invocation ends by returning an envelope, {success: true,...} *)
(* or {error, ...}, whatever the collaborators do; no exception leaves the *)
(* handler.                                                                *)
(***************************************************************************)
C2_NoExceptionEscapes ==
    Done =>
        /\ ret.kind = "return"
        /\ \/ ("success" \in DOMAIN Envelope /\ Envelope.success = TRUE)
           \/ "error" \in DOMAIN Envelope

(***************************************************************************)
(* C3: an envelope has the key oauth_required only when the gate found no  *)
(* active connection; then oauth_required is true and oauth_url is a       *)
(* non-empty string: the redirect URL that initiate_connection answered,   *)
(* or, when it raised or answered no redirect URL, the dashboard URL of    *)
(* the lower-cased application name. A failed initiation never becomes a   *)
(* check failure or a raised error.                                        *)
(***************************************************************************)
C3_DashboardUrl ==
    IF AppOf(tool) = "GMAIL" THEN "https://app.composio.dev/app/gmail"
    ELSE "https://app.composio.dev/app/linkedin"

C3_RedirectAnswered(o) ==
    /\ o.kind = "return"
    /\ "redirectUrl" \in DOMAIN o.value
    /\ o.value.redirectUrl \notin {None, ""}

C3_OAuthEnvelope ==
    /\ (Returned /\ "oauth_required" \in DOMAIN Envelope) =>
          /\ GateNotConnected
          /\ HasCall("get_connection")
          /\ ~connection_active(TheCall("get_connection").out)
          /\ HasCall("initiate_connection")
          /\ Envelope.oauth_required = TRUE
          /\ Envelope.oauth_url \notin {None, ""}
          /\ LET o == TheCall("initiate_connection").out
             IN  IF C3_RedirectAnswered(o)
                 THEN Envelope.oauth_url = o.value.redirectUrl
                 ELSE Envelope.oauth_url = C3_DashboardUrl
    /\ (Done /\ HasCall("initiate_connection")) =>
          /\ Returned
          /\ "oauth_required" \in DOMAIN Envelope
          /\ ~GateCheckFailed

C3_Witness ==
    /\ Returned
    /\ "oauth_required" \in DOMAIN Envelope
    /\ TheCall("initiate_connection").out.kind = "raise"
    /\ Envelope.oauth_url = "https://app.composio.dev/app/gmail"


(***************************************************************************)
(* C4 (as claimed): an exception raised by get_entity or by get_connection *)
(* makes the invocation end with {error: "Failed to check OAuth            *)
(* connection: ..."} and no oauth_required key.                            *)
(***************************************************************************)
C4_CheckFailedEnvelope(op) ==
    /\ Returned
    /\ Envelope = [error |-> "Failed to check OAuth connection: " \o TheCall(op).out.exc]
    /\ client = NoneObj

C5_KeyUnresolvable ==
    IF credentials # NoneObj
    THEN credentials.composio \in {None, ""}
    ELSE environ \in {None, ""}

\* the key lookup of this invocation answered (it did not raise)
C5_LookupAnswered ==
    \E op \in LookupOps : HasCall(op) /\ TheCall(op).out.kind = "return"

C5_MissingCredential ==
    (tool \in GatedTools /\ C5_KeyUnresolvable) =>
        /\ \A op \in RemoteOps \cup {"ComposioToolSet"} : ~HasCall(op)
        /\ pc \in {"get_client", "done"}
        /\ (Done /\ HasCall("_ensure_oauth_connection") /\ C5_LookupAnswered) =>
              /\ Returned
              /\ "error" \in DOMAIN Envelope
              /\ "oauth_required" \notin DOMAIN Envelope
              /\ "success" \notin DOMAIN Envelope

C5_Witness ==
    /\ Done
    /\ tool = "gmail_read_emails"
    /\ credentials = [composio |-> ""]
    /\ environ = "key-123"
    /\ remote[GMAIL_APP_NAME] = [id |-> "conn-1", status |-> "ACTIVE"]
    /\ C5_LookupAnswered
    /\ Envelope = [error |-> "COMPOSIO_API_KEY not set. Get one at https://app.composio.dev/settings"]

(***************************************************************************)
(* C6: an input with an empty required field or a violated length bound    *)
(* ends the invocation with an {error} envelope before the credential is   *)
(* resolved, the gate is called or any remote call is made, whatever the   *)
(* credential and connection state.                                        *)
(***************************************************************************)
C6_InvalidInput ==
    \/ /\ tool \in {"gmail_send_email", "gmail_create_draft"}
       /\ (args.to = 0 \/ args.subject = 0)
    \/ tool = "gmail_send_email" /\ args.body = 0
    \/ tool = "gmail_search_emails" /\ args.query = 0
    \/ tool = "linkedin_search_people" /\ args.keywords = 0
    \/ /\ tool = "linkedin_send_message"
       /\ (args.recipient_id = 0 \/ args.message = 0 \/ args.message > 8000)
    \/ /\ tool = "linkedin_create_post"
       /\ (args.text = 0 \/ args.text > 3000)

C6_ValidationFirst ==
    C6_InvalidInput =>
        /\ Returned
        /\ DOMAIN Envelope = {"error"}
        /\ calls = <<>>
        /\ gate_locals = <<NoneObj, NoCheck, NoneObj, NoneObj>>

C6_Witness ==
    /\ Done
    /\ tool = "linkedin_send_message"
    /\ args = [recipient_id |-> 0, message |-> 1]
    /\ Envelope = [error |-> "Recipient ID is required"]
    /\ sdk_installed
    /\ credentials = [composio |-> "key-123"]
    /\ remote[LINKEDIN_APP_NAME] = [id |-> "conn-1", status |-> "ACTIVE"]

(***************************************************************************)
(* C7: linkedin_create_post calls the gate if and only if                  *)
(* 1 <= len(text) <= 3000; otherwise it returns                            *)
(* {error: "Post text must be 1-3000 characters"} with no gate call.       *)
(***************************************************************************)
C7_PostTextBounds ==
    tool = "linkedin_create_post" =>
        /\ HasCall("_ensure_oauth_connection") <=> (1 <= args.text /\ args.text <= 3000)
        /\ ~(1 <= args.text /\ args.text <= 3000) =>
              /\ Returned
              /\ Envelope = [error |-> "Post text must be 1-3000 characters"]
              /\ calls = <<>>

C7_Witness ==
    /\ tool = "linkedin_create_post"
    /\ args.text = 3000
    /\ HasCall("_ensure_oauth_connection")
    /\ HasCall("execute_action")
    /\ TheCall("execute_action").params.text = 3000


(***************************************************************************)
(* C8: gmail_read_emails and gmail_search_emails forward                   *)
(* max_results = min(100, max(1, input)) and linkedin_search_people        *)
(* forwards limit = min(50, max(1, input)), for every integer input (no    *)
(* input is rejected for its count); on success the returned list has at   *)
(* most that many items, however many the remote service answered.         *)
(***************************************************************************)
C8_Clamp(n, cap) ==
    LET lo == IF n < 1 THEN 1 ELSE n
    IN  IF lo > cap THEN cap ELSE lo

C8_CountsClamped ==
    /\ tool \in {"gmail_read_emails", "gmail_search_emails"} =>
          LET asked == C8_Clamp(args.max_results, 100)
          IN  /\ (Returned /\ ~HasCall("_ensure_oauth_connection")) =>
                    (tool = "gmail_search_emails" /\ args.query = 0)
              /\ HasCall("execute_action") =>
                    TheCall("execute_action").params.max_results = asked
              /\ (Returned /\ "success" \in DOMAIN Envelope) =>
                    IF tool = "gmail_read_emails"
                    THEN Len(Envelope.emails) <= asked
                    ELSE Len(Envelope.results) <= asked
    /\ tool = "linkedin_search_people" =>
          LET asked == C8_Clamp(args.limit, 50)
          IN  /\ (Returned /\ ~HasCall("_ensure_oauth_connection")) => args.keywords = 0
              /\ HasCall("execute_action") =>
                    TheCall("execute_action").params.limit = asked
              /\ (Returned /\ "success" \in DOMAIN Envelope) =>
                    Len(Envelope.results) <= asked

\* max_results above the cap, and the remote service answers more than the cap
C8_Witness ==
    /\ Returned
    /\ tool = "gmail_read_emails"
    /\ args.max_results > 100
    /\ HasCall("execute_action")
    /\ TheCall("execute_action").params.max_results = 100
    /\ "success" \in DOMAIN Envelope
    /\ Len(Envelope.emails) = 100
    /\ Envelope.total > 100

(***************************************************************************)
(* C9: linkedin_create_post forwards the visibility it was given if that   *)
(* is PUBLIC, CONNECTIONS or LOGGED_IN and PUBLIC otherwise, and           *)
(* linkedin_get_company forwards the role it was given if that is          *)
(* ADMINISTRATOR or DIRECT_SPONSORED_CONTENT_POSTER and ADMINISTRATOR      *)
(* otherwise; an unrecognised value is no validation error.                *)
(***************************************************************************)
C9_EnumCoerced ==
    /\ tool = "linkedin_create_post" =>
          /\ HasCall("execute_action") =>
                LET v == TheCall("execute_action").params.visibility
                IN  /\ v \in {"PUBLIC", "CONNECTIONS", "LOGGED_IN"}
                    /\ v = IF args.visibility \in {"PUBLIC", "CONNECTIONS", "LOGGED_IN"}
                           THEN args.visibility ELSE "PUBLIC"
          /\ (1 <= args.text /\ args.text <= 3000) => HasCall("_ensure_oauth_connection")
    /\ tool = "linkedin_get_company" =>
          /\ HasCall("execute_action") =>
                LET r == TheCall("execute_action").params.role
                IN  /\ r \in {"ADMINISTRATOR", "DIRECT_SPONSORED_CONTENT_POSTER"}
                    /\ r = IF args.role \in {"ADMINISTRATOR", "DIRECT_SPONSORED_CONTENT_POSTER"}
                           THEN args.role ELSE "ADMINISTRATOR"
          /\ HasCall("_ensure_oauth_connection")

C9_Witness ==
    /\ Returned
    /\ tool = "linkedin_create_post"
    /\ args.visibility = "BOGUS"
    /\ HasCall("execute_action")
    /\ TheCall("execute_action").params.visibility = "PUBLIC"
    /\ "success" \in DOMAIN Envelope

(***************************************************************************)
(* C10: linkedin_get_profile returns the same sample object for every      *)
(* profile_id, credential and connection state, and looks up no            *)
(* credential, calls no gate and makes no remote call.                     *)
(***************************************************************************)
C10_ProfileIsFixed ==
    tool = "linkedin_get_profile" =>
        /\ Returned
        /\ Envelope = linkedin_get_profile([profile_id |-> "me"])
        /\ Envelope.success = TRUE
        /\ Envelope.profile.id = "mock-profile-123"
        /\ Envelope.profile.full_name = "Richard Tang"
        /\ calls = <<>>
        /\ gate_locals = <<NoneObj, NoCheck, NoneObj, NoneObj>>

C10_Witness ==
    /\ Done
    /\ tool = "linkedin_get_profile"
    /\ args.profile_id = "urn:li:person:42"
    /\ credentials = NoneObj
    /\ environ = None
    /\ remote[LINKEDIN_APP_NAME] = NoneObj
    /\ Envelope.profile.id = "mock-profile-123"

(***************************************************************************)
(* C11: when execute_action raises, the handler returns an envelope whose  *)
(* only key is error and whose text is the tool's prefix, " failed: " and  *)
(* the exception's text; nothing propagates.                               *)
(***************************************************************************)
C11_Prefixed ==
    [gmail_send_email |-> "Gmail send failed: ",
     gmail_read_emails |-> "Gmail read failed: ",
     gmail_search_emails |-> "Gmail search failed: ",
     gmail_create_draft |-> "Gmail draft creation failed: ",
     linkedin_create_post |-> "LinkedIn post failed: ",
     linkedin_get_company |-> "LinkedIn company fetch failed: ",
     linkedin_search_people |-> "LinkedIn search failed: ",
     linkedin_send_message |-> "LinkedIn message failed: "]

C11_ActionRaised ==
    /\ HasCall("execute_action")
    /\ TheCall("execute_action").out.kind = "raise"

\* C11: an execute_action that raised (the gate having reported connected)
\* ends the invocation with the returned envelope {error: "<prefix> failed:
\* <exception text>"} and no other key
C11_ActionExceptionEnvelope ==
    C11_ActionRaised =>
        /\ GateConnected
        /\ Done
        /\ Returned
        /\ tool \in DOMAIN C11_Prefixed
        /\ DOMAIN Envelope = {"error"}
        /\ Envelope.error = C11_Prefixed[tool] \o TheCall("execute_action").out.exc

C11_Witness ==
    /\ C11_ActionRaised
    /\ tool = "linkedin_send_message"
    /\ Returned
    /\ Envelope = [error |-> "LinkedIn message failed: Connection reset by peer"]

(***************************************************************************)
(* C12: the success envelope of gmail_send_email; success only on a remote *)
(* result whose successful flag is true; never success and error together. *)
(***************************************************************************)
C12_ActionReturned ==
    /\ HasCall("execute_action")
    /\ TheCall("execute_action").out.kind = "return"
    /\ TheCall("execute_action").out.value # NoneObj

C12_RemoteSuccessful ==
    /\ C12_ActionReturned
    /\ "successful" \in DOMAIN TheCall("execute_action").out.value
    /\ TheCall("execute_action").out.value.successful = TRUE

C12_Field(result, k) ==
    IF "data" \in DOMAIN result /\ k \in DOMAIN result.data
    THEN result.data[k]
    ELSE None

\* C12: with a credential, a connected gate and a remote result whose
\* successful flag is true, gmail_send_email returns {success: true,
\* message_id: data.id, thread_id: data.threadId or null, message: "Email sent
\* successfully"}; a handler that called the remote action returns a success
\* envelope only when the result's successful flag is true; no envelope has
\* both a success and an error key
C12_SendEmailSuccess ==
    /\ (tool = "gmail_send_email" /\ C12_RemoteSuccessful) =>
           /\ GateConnected
           /\ Returned
           /\ Envelope =
                 [success |-> TRUE,
                  message_id |-> C12_Field(TheCall("execute_action").out.value, "id"),
                  thread_id |-> C12_Field(TheCall("execute_action").out.value, "threadId"),
                  message |-> "Email sent successfully"]
    /\ (Returned /\ tool \in GatedTools /\ "success" \in DOMAIN Envelope) =>
           C12_RemoteSuccessful
    /\ Returned => ~({"success", "error"} \subseteq DOMAIN Envelope)

C12_Witness ==
    /\ tool = "gmail_send_email"
    /\ C12_RemoteSuccessful
    /\ Returned
    /\ Envelope = [success |-> TRUE, message_id |-> "abc123", thread_id |-> None,
                   message |-> "Email sent successfully"]

(***************************************************************************)
(* C13: the gate reports connected exactly when get_connection returned a  *)
(* record whose status is "ACTIVE" or absent; otherwise it goes on to      *)
(* initiate_connection; a connected gate never initiated.                  *)
(***************************************************************************)
C13_LookupFoundActive ==
    LET o == TheCall("get_connection").out
    IN  /\ o.kind = "return"
        /\ o.value # NoneObj
        /\ ("status" \in DOMAIN o.value => o.value.status \in {"ACTIVE", None})

\* C13: once get_connection has answered, the gate reports connected if and
\* only if the answer is a record with status "ACTIVE" or without status; on
\* any other answer (another status, no record, an exception) it does not
\* report connected, calls no remote action and initiate_connection is the
\* next call it makes; a gate that reports connected has looked the connection
\* up and has not called initiate_connection
C13_ConnectedIffActive ==
    /\ HasCall("get_connection") =>
          IF C13_LookupFoundActive
          THEN /\ GateConnected
               /\ pc \in {"execute", "done"}
               /\ ~HasCall("initiate_connection")
          ELSE /\ ~GateConnected
               /\ ~HasCall("execute_action")
               /\ IF HasCall("initiate_connection")
                  THEN GateNotConnected /\ Done
                  ELSE pc = "initiate"
    /\ GateConnected =>
          /\ HasCall("get_connection")
          /\ ~HasCall("initiate_connection")

C13_Witness ==
    /\ Done
    /\ HasCall("get_connection")
    /\ TheCall("get_connection").out = Return([id |-> "conn-1"])
    /\ GateConnected
    /\ ~HasCall("initiate_connection")
    /\ HasCall("execute_action")

(***************************************************************************)
(* C14: no remote operation is called twice in one invocation, and a       *)
(* failed remote action ends the invocation with an {error} envelope.      *)
(***************************************************************************)
C14_ActionFailed ==
    /\ HasCall("execute_action")
    /\ LET o == TheCall("execute_action").out
       IN  \/ o.kind = "raise"
           \/ o.value = NoneObj
           \/ "successful" \notin DOMAIN o.value
           \/ o.value.successful = FALSE

\* C14: within one invocation get_entity, get_connection, initiate_connection
\* and execute_action are each called at most once, whatever the remote
\* service answered, and an execute_action that raised or reported failure
\* leaves the invocation finished with a returned envelope that has an error
\* key and no success key
C14_NoRetry ==
    /\ \A op \in {"get_entity", "get_connection", "initiate_connection",
                   "execute_action"} :
          Cardinality(CallsOf(op)) <= 1
    /\ C14_ActionFailed =>
          /\ Done
          /\ Returned
          /\ "error" \in DOMAIN Envelope
          /\ "success" \notin DOMAIN Envelope

C14_Witness ==
    /\ Done
    /\ Cardinality(CallsOf("get_entity")) = 1
    /\ Cardinality(CallsOf("get_connection")) = 1
    /\ Cardinality(CallsOf("initiate_connection")) = 0
    /\ Cardinality(CallsOf("execute_action")) = 1
    /\ C14_ActionFailed
    /\ Returned
    /\ "error" \in DOMAIN Envelope

(***************************************************************************)
(* C15: the connection check and the remote action are separate steps; a   *)
(* revocation may fall between them, and the action is issued all the      *)
(* same; a check made on a revoked connection ends in oauth_required.      *)
(***************************************************************************)
\* the remote service holds no connection for the running tool's application
C15_Revoked ==
    /\ pc # "idle"
    /\ tool \in GatedTools
    /\ remote[AppOf(tool)] = NoneObj

\* the check saw an active connection, the connection has been dropped since,
\* and the remote action is still to be issued
C15_RevokedBeforeAct ==
    /\ pc = "execute"
    /\ GateConnected
    /\ HasCall("get_connection")
    /\ TheCall("get_connection").out.kind = "return"
    /\ TheCall("get_connection").out.value \in ConnectionRecords
    /\ C15_Revoked

\* the step of an invocation from the state above issues execute_action and
\* ends the invocation with a returned envelope
C15_ActAfterRevoke ==
    (C15_RevokedBeforeAct /\ pc' # pc) =>
        /\ pc' = "done"
        /\ Cardinality({i \in DOMAIN calls' : calls'[i].op = "execute_action"}) = 1
        /\ ret'.kind = "return"

\* a connection lookup made while the connection is revoked does not report
\* connected: the invocation goes on to initiate_connection
C15_CheckAfterRevoke ==
    (pc = "get_connection" /\ C15_Revoked /\ pc' # pc) =>
        /\ pc' = "initiate"
        /\ check' = check
        /\ ret' = ret

\* an invocation that went on to initiate_connection issues no remote action
\* and returns the oauth_required envelope
C15_InitiatedEndsInOAuth ==
    (pc = "initiate" \/ HasCall("initiate_connection")) =>
        /\ ~HasCall("execute_action")
        /\ pc \in {"initiate", "done"}
        /\ Done =>
              /\ Returned
              /\ "oauth_required" \in DOMAIN Envelope
              /\ Envelope.oauth_required = TRUE
              /\ "success" \notin DOMAIN Envelope

\* C15: an invocation whose check observed a connection that is revoked
\* before the remote action still issues the action and returns an envelope;
\* an invocation whose connection lookup happens while the connection is
\* revoked goes to initiate_connection, issues no remote action and returns
\* the oauth_required envelope
C15_CheckThenAct ==
    /\ []C15_InitiatedEndsInOAuth
    /\ [][C15_ActAfterRevoke /\ C15_CheckAfterRevoke]_vars

C15_Witness ==
    /\ C15_RevokedBeforeAct
    /\ tool = "gmail_send_email"
    /\ TheCall("get_connection").out = Return([id |-> "conn-1", status |-> "ACTIVE"])
    /\ ~HasCall("execute_action")

=============================================================================
